---- MODULE Spec2Model ----
(***************************************************************************)
(* A model of the disk-resident B-tree of src/src/lib.rs.                  *)
(*                                                                         *)
(* State: the backing directory and its files (each a sequence of          *)
(* MessagePack tokens), the BTree object with its resident root Node (an   *)
(* open file handle with a cursor, and a NodeData with the allocated       *)
(* capacity of its key vector), and the outcome of the last call.          *)
(*                                                                         *)
(* Keys are integers, values are integers standing for strings, a NodeRef  *)
(* is a file name inside the backing directory: 0 is "root", 1..MaxNames   *)
(* stand for the names Uuid::new_v4 draws.                                 *)
(***************************************************************************)
EXTENDS Integers, Sequences, FiniteSets, TLC

VARIABLES dirExists, files, tree, last, ops, longest

vars == <<dirExists, files, tree, last, ops, longest>>

(* ------------------------------ bounds ------------------------------- *)

\* Keys are drawn from 1..MaxKey.
MaxKey == 6

\* The largest value. The code never inspects a value (V is moved and
\* serialised, nothing else), so two values that differ stand for all of them:
\* they tell a replaced value from the one that replaces it.
MaxVal == 2

\* Number of uuid names that can be drawn.
MaxNames == 9

\* Capacities offered to BTree::new are 3..MaxCap.
MaxCap == 5

\* Number of calls made in one run.
MaxOps == 7

Keys == 1..MaxKey

Values == {MaxVal - 1, MaxVal}

Caps == 3..MaxCap

\* The file name "root" (lib.rs:59, lib.rs:78).
RootName == 0

Names == 0..MaxNames

(* --------------------------- NodeData ------------------------------- *)

\* Option<Vec<NodeRef>>
NoChildren == [some |-> FALSE, refs |-> <<>>]

SomeChildren(refs) == [some |-> TRUE, refs |-> refs]

\* struct NodeData; cap is keys.capacity(), the allocated size of the key vector.
MkData(keys, values, children, cap) ==
    [keys |-> keys, values |-> values, children |-> children, cap |-> cap]

\* Mutant: the assertion forgets that the capacity must be odd.
ValidCapacityAbove3(capacity) == capacity > 3

\* The assertion of NodeData::new.
ValidCapacity(capacity) == capacity % 2 = 1 /\ capacity > 3

\* NodeData::new, for a capacity that passes its assertion.
NodeDataNew(capacity) == MkData(<<>>, <<>>, NoChildren, capacity)

is_leaf(d) == ~d.children.some

\* Mutant: a node never counts as full.
IsFullNever(d) == FALSE

is_full(d) == Len(d.keys) = d.cap

capacity(d) == d.cap

\* Mutant: the element is put in front, whatever the index.
VecInsertFront(s, idx, x) == <<x>> \o s

\* Vec::insert(idx, x) with idx counted from 0.
VecInsert(s, idx, x) == SubSeq(s, 1, idx) \o <<x>> \o SubSeq(s, idx + 1, Len(s))

\* slice::binary_search over the half-open range lo..hi (indices from 0):
\* [found |-> TRUE, idx] for Ok(idx), [found |-> FALSE, idx] for Err(idx).
RECURSIVE BSearch(_, _, _, _)
BSearch(s, key, lo, hi) ==
    IF lo >= hi THEN [found |-> FALSE, idx |-> lo]
    ELSE LET mid == lo + (hi - lo) \div 2
         IN IF s[mid + 1] = key THEN [found |-> TRUE, idx |-> mid]
            ELSE IF s[mid + 1] < key THEN BSearch(s, key, mid + 1, hi)
            ELSE BSearch(s, key, lo, mid)

binary_search(s, key) == BSearch(s, key, 0, Len(s))

\* Mutant: the new key is pushed at the end.
InsertIdxAppend(s, key) == Len(s)

\* The position NodeData::insert stores a new key at.
InsertIdx(s, key) == binary_search(s, key).idx

\* NodeData::insert: [ret, old, data]; ret is "Some" (old value returned),
\* "None" (stored as a new key) or "Panic" (no space left).
NodeDataInsert(d, key, value) ==
    LET r == binary_search(d.keys, key)
    IN IF r.found
       THEN [ret |-> "Some", old |-> d.values[r.idx + 1],
             data |-> [d EXCEPT !.values[r.idx + 1] = value]]
       ELSE IF ~is_full(d)
       THEN [ret |-> "None", old |-> 0,
             data |-> [d EXCEPT !.keys = VecInsert(d.keys, InsertIdx(d.keys, key), key),
                                !.values = VecInsert(d.values, InsertIdx(d.keys, key), value)]]
       ELSE [ret |-> "Panic", old |-> 0, data |-> d]

\* Vec::split_off(at): the elements from index at (counted from 0) on.
SplitOffTail(s, at) == SubSeq(s, at + 1, Len(s))

\* What Vec::split_off(at) leaves behind.
SplitOffHead(s, at) == SubSeq(s, 1, at)

\* Vec::pop leaves all but the last element.
PopRest(s) == SubSeq(s, 1, Len(s) - 1)

\* Mutant: the vectors are cut at the middle index.
SplitIdxHalf(d) == d.cap \div 2

\* split_idx of NodeData::split.
SplitIdx(d) == d.cap \div 2 + 1

\* Mutant: the children are cut one place too early.
ChildSplitIdxLow(d) == SplitIdx(d) - 1

\* Where NodeData::split cuts the children vector.
ChildSplitIdx(d) == SplitIdx(d)

\* Mutant: the median key is read but not popped.
SplitKeepKeysNoPop(d) == SplitOffHead(d.keys, SplitIdx(d))

\* The keys NodeData::split leaves in self: split_off, then pop.
SplitKeepKeys(d) == PopRest(SplitOffHead(d.keys, SplitIdx(d)))

\* Mutant: the median value is not popped.
SplitKeepValuesNoPop(d) == SplitOffHead(d.values, SplitIdx(d))

\* The values NodeData::split leaves in self.
SplitKeepValues(d) == PopRest(SplitOffHead(d.values, SplitIdx(d)))

\* NodeData::split of a full node: [key, value, self, other].
NodeDataSplit(d) ==
    LET kids == IF d.children.some
                THEN SomeChildren(SplitOffTail(d.children.refs, ChildSplitIdx(d)))
                ELSE NoChildren
        rest == IF d.children.some
                THEN SomeChildren(SplitOffHead(d.children.refs, ChildSplitIdx(d)))
                ELSE NoChildren
        head == SplitOffHead(d.keys, SplitIdx(d))
        hval == SplitOffHead(d.values, SplitIdx(d))
    IN [key   |-> head[Len(head)],
        value |-> hval[Len(hval)],
        self  |-> MkData(SplitKeepKeys(d), SplitKeepValues(d), rest, d.cap),
        other |-> MkData(SplitOffTail(d.keys, SplitIdx(d)),
                         SplitOffTail(d.values, SplitIdx(d)), kids, d.cap)]

(* ----------------------- persistence codec -------------------------- *)

Tok(t, x) == [tag |-> t, v |-> x]

EncVec(t, s) == <<Tok("arr", Len(s))>> \o [i \in 1..Len(s) |-> Tok(t, s[i])]

\* NodeData::serialize through rmp_serde: the struct as an array of its three
\* fields; children is nil for None.
Encode(d) ==
    <<Tok("arr", 3)>> \o EncVec("key", d.keys) \o EncVec("val", d.values)
        \o (IF d.children.some THEN EncVec("ref", d.children.refs) ELSE <<Tok("nil", 0)>>)

DecodeErr == [ok |-> FALSE, used |-> 0, data |-> MkData(<<>>, <<>>, NoChildren, 0)]

AllTagged(b, from, to, t) == \A i \in from..to : b[i].tag = t

Payload(b, from, to) == [i \in 1..(to - from + 1) |-> b[from + i - 1].v]

\* rmp_serde::from_read: reads one record from the start and ignores what follows
\* it. A deserialized Vec is allocated for exactly the announced length, so the
\* capacity of the loaded key vector is its length.
Decode(b) ==
    IF ~(Len(b) >= 2 /\ b[1] = Tok("arr", 3) /\ b[2].tag = "arr") THEN DecodeErr
    ELSE LET n == b[2].v
             kEnd == 2 + n
         IN IF ~(Len(b) >= kEnd + 1 /\ AllTagged(b, 3, kEnd, "key") /\ b[kEnd + 1].tag = "arr")
            THEN DecodeErr
            ELSE LET m == b[kEnd + 1].v
                     vEnd == kEnd + 1 + m
                     ks == Payload(b, 3, kEnd)
                     vs == Payload(b, kEnd + 2, vEnd)
                 IN IF ~(Len(b) >= vEnd + 1 /\ AllTagged(b, kEnd + 2, vEnd, "val"))
                    THEN DecodeErr
                    ELSE IF b[vEnd + 1].tag = "nil"
                    THEN [ok |-> TRUE, used |-> vEnd + 1,
                          data |-> MkData(ks, vs, NoChildren, Len(ks))]
                    ELSE IF b[vEnd + 1].tag = "arr"
                            /\ Len(b) >= vEnd + 1 + b[vEnd + 1].v
                            /\ AllTagged(b, vEnd + 2, vEnd + 1 + b[vEnd + 1].v, "ref")
                    THEN [ok |-> TRUE, used |-> vEnd + 1 + b[vEnd + 1].v,
                          data |-> MkData(ks, vs,
                                     SomeChildren(Payload(b, vEnd + 2, vEnd + 1 + b[vEnd + 1].v)),
                                     Len(ks))]
                    ELSE DecodeErr

(* ----------------------------- files --------------------------------- *)

NoFile == [exists |-> FALSE, bytes |-> <<>>]

EmptyFile == [exists |-> TRUE, bytes |-> <<>>]

\* write(2) at the cursor: a cursor past the end leaves a hole of zero bytes.
WriteAt(bytes, pos, toks) ==
    LET padded == IF pos > Len(bytes)
                  THEN bytes \o [i \in 1..(pos - Len(bytes)) |-> Tok("zero", 0)]
                  ELSE bytes
        endw == pos + Len(toks)
    IN SubSeq(padded, 1, pos) \o toks \o SubSeq(padded, endw + 1, Len(padded))

\* struct Node: the open file (its path and cursor) and the data.
MkNode(path, pos, data) == [path |-> path, pos |-> pos, data |-> data]

NoNode == MkNode(0, 0, MkData(<<>>, <<>>, NoChildren, 0))

\* Node::reset_file: set_len(0), what is left of the file.
ResetLen(bytes) == <<>>

\* Mutant: the cursor is not rewound.
ResetPosKeep(pos) == pos

\* Node::reset_file: rewind, the cursor afterwards.
ResetPos(pos) == 0

\* Node::save: the bytes of the node's file afterwards.
SaveBytes(fs, node) ==
    WriteAt(ResetLen(fs[node.path].bytes), ResetPos(node.pos), Encode(node.data))

\* Node::save: the file system afterwards.
SaveFiles(fs, node) == [fs EXCEPT ![node.path] = [exists |-> TRUE, bytes |-> SaveBytes(fs, node)]]

\* Node::save: the node afterwards (the cursor moved behind what was written).
SaveNode(fs, node) == [node EXCEPT !.pos = ResetPos(node.pos) + Len(Encode(node.data))]

\* Mutant: the file is opened with create(true), which succeeds on a file that
\* exists.
CanCreateAlways(fs, path) == TRUE

\* Whether OpenOptions create_new(true) succeeds.
CanCreate(fs, path) == ~fs[path].exists

\* BTree::new_node_name: a name no file has yet (uuid v4).
HasFreshName(fs) == {n \in Names \ {RootName} : ~fs[n].exists} # {}

FreshName(fs) == CHOOSE n \in Names \ {RootName} :
                    ~fs[n].exists /\ \A m \in Names \ {RootName} : ~fs[m].exists => n <= m

(* ------------------------------ state -------------------------------- *)

NoTree == [exists |-> FALSE, root_node |-> NoNode]

\* What the last call returned: the operation, its capacity or path argument
\* (0 for a call without one), how it ended (ret), and the value, key and node
\* it handed back.
Outcome(op, arg, ret, old, key, node) ==
    [op |-> op, arg |-> arg, ret |-> ret, old |-> old, key |-> key, node |-> node]

\* One more call is made. A panic unwinds the calling thread, which owns the
\* tree and its nodes: no call follows one that panicked.
Step == ops < MaxOps /\ last.ret # "Panic" /\ ops' = ops + 1

\* History: the length of the longest content the file of the root node has held.
Longer(n, bytes) == IF Len(bytes) > n THEN Len(bytes) ELSE n

Init ==
    /\ dirExists = FALSE
    /\ files = [n \in Names |-> NoFile]
    /\ tree = NoTree
    /\ last = Outcome("init", 0, "Ok", 0, 0, NoNode)
    /\ ops = 0
    /\ longest = 0

(* ----------------------------- actions ------------------------------- *)

\* Node::new_with_data: the file system after the file was created (empty).
CreateFile(fs, path) == [fs EXCEPT ![path] = EmptyFile]

\* Mutant: the new file is written, but the node keeps its old file.
RenameNodeKeepsFile(fs, node, new_name) == SaveNode(fs, node)

\* Node::rename: the node bound to the new file, after its save.
RenameNode(fs, node, new_name) ==
    SaveNode(CreateFile(fs, new_name), MkNode(new_name, 0, node.data))

\* Node::rename: the file system afterwards. The old file is not touched.
RenameFiles(fs, node, new_name) ==
    SaveFiles(CreateFile(fs, new_name), MkNode(new_name, 0, node.data))

\* BTree::new(backing_dir, capacity).
BTreeNew(cap) ==
    /\ Step
    /\ UNCHANGED longest
    /\ IF dirExists
       THEN \* DirBuilder::create fails: the directory exists.
            /\ last' = Outcome("BTreeNew", cap, "ErrIo", 0, 0, NoNode)
            /\ UNCHANGED <<dirExists, files, tree>>
       ELSE /\ dirExists' = TRUE
            /\ IF ~ValidCapacity(cap)
               THEN \* the assertion of NodeData::new fails; the directory stays
                    /\ last' = Outcome("BTreeNew", cap, "Panic", 0, 0, NoNode)
                    /\ UNCHANGED <<files, tree>>
               ELSE IF ~CanCreate(files, RootName)
               THEN /\ last' = Outcome("BTreeNew", cap, "ErrIo", 0, 0, NoNode)
                    /\ UNCHANGED <<files, tree>>
               ELSE /\ files' = CreateFile(files, RootName)
                    /\ tree' = [exists |-> TRUE,
                                root_node |-> MkNode(RootName, 0, NodeDataNew(cap))]
                    /\ last' = Outcome("BTreeNew", cap, "Ok", 0, 0, NoNode)

\* The root Node after the root-split branch of BTree::insert got as far as
\* Node::new for the new root: split, then rename.
DemotedRoot(fs, root) ==
    LET sp == NodeDataSplit(root.data)
        fs1 == CreateFile(fs, FreshName(fs))
    IN RenameNode(fs1, [root EXCEPT !.data = sp.self], FreshName(fs1))

\* The files after split and rename of the root-split branch.
DemotedFiles(fs, root) ==
    LET sp == NodeDataSplit(root.data)
        fs1 == CreateFile(fs, FreshName(fs))
    IN RenameFiles(fs1, [root EXCEPT !.data = sp.self], FreshName(fs1))

\* The new root of the root-split branch: Node::new, then insert of the median.
NewRoot(root) ==
    LET sp == NodeDataSplit(root.data)
    IN MkNode(RootName, 0,
              NodeDataInsert(NodeDataNew(capacity(root.data)), sp.key, sp.value).data)

\* BTree::insert(key, value).
BTreeInsert(k, v) ==
    /\ Step
    /\ tree.exists
    /\ IF is_full(tree.root_node.data)
       THEN /\ HasFreshName(files)
            /\ HasFreshName(CreateFile(files, FreshName(files)))
            /\ files' = IF CanCreate(DemotedFiles(files, tree.root_node), RootName)
                        THEN CreateFile(DemotedFiles(files, tree.root_node), RootName)
                        ELSE DemotedFiles(files, tree.root_node)
            /\ IF CanCreate(DemotedFiles(files, tree.root_node), RootName)
               THEN \* the new root is installed; then todo!()
                    /\ tree' = [tree EXCEPT !.root_node = NewRoot(tree.root_node)]
                    /\ last' = Outcome("BTreeInsert", 0, "Panic", 0, 0, NoNode)
               ELSE \* Node::new fails: a file named "root" exists
                    /\ tree' = [tree EXCEPT !.root_node = DemotedRoot(files, tree.root_node)]
                    /\ last' = Outcome("BTreeInsert", 0, "ErrIo", 0, 0, NoNode)
            /\ longest' = IF CanCreate(DemotedFiles(files, tree.root_node), RootName)
                           THEN 0
                           ELSE Len(files'[tree'.root_node.path].bytes)
            /\ UNCHANGED dirExists
       ELSE \* todo!()
            /\ last' = Outcome("BTreeInsert", 0, "Panic", 0, 0, NoNode)
            /\ UNCHANGED <<dirExists, files, tree, longest>>

\* Node::insert(key, value) on the root node.
NodeInsert(k, v) ==
    /\ Step
    /\ tree.exists
    /\ LET r == NodeDataInsert(tree.root_node.data, k, v)
       IN /\ tree' = [tree EXCEPT !.root_node.data = r.data]
          /\ last' = Outcome("NodeInsert", 0, r.ret, r.old, 0, NoNode)
    /\ UNCHANGED <<dirExists, files, longest>>

\* Node::save on the root node.
NodeSave ==
    /\ Step
    /\ tree.exists
    /\ files' = SaveFiles(files, tree.root_node)
    /\ tree' = [tree EXCEPT !.root_node = SaveNode(files, tree.root_node)]
    /\ last' = Outcome("NodeSave", 0, "Ok", 0, 0, NoNode)
    /\ longest' = Longer(longest, SaveBytes(files, tree.root_node))
    /\ UNCHANGED dirExists

\* Node::load(path): the loaded Node is the call's result.
NodeLoad(path) ==
    /\ Step
    /\ dirExists
    /\ last' = IF ~files[path].exists
               THEN Outcome("NodeLoad", path, "ErrIo", 0, 0, NoNode)
               ELSE IF ~Decode(files[path].bytes).ok
               THEN Outcome("NodeLoad", path, "ErrDeserialization", 0, 0, NoNode)
               ELSE Outcome("NodeLoad", path, "Ok", 0, 0,
                            MkNode(path, Decode(files[path].bytes).used,
                                   Decode(files[path].bytes).data))
    /\ UNCHANGED <<dirExists, files, tree, longest>>

\* Node::split(other) on the root node: the median and the sibling Node are the
\* call's result.
NodeSplit(other) ==
    /\ Step
    /\ tree.exists
    /\ IF ~is_full(tree.root_node.data)
       THEN \* the assertion of NodeData::split
            /\ last' = Outcome("NodeSplit", other, "Panic", 0, 0, NoNode)
            /\ UNCHANGED <<files, tree>>
       ELSE LET sp == NodeDataSplit(tree.root_node.data)
            IN /\ tree' = [tree EXCEPT !.root_node.data = sp.self]
               /\ IF CanCreate(files, other)
                  THEN /\ files' = CreateFile(files, other)
                       /\ last' = Outcome("NodeSplit", other, "Ok", sp.value, sp.key,
                                          MkNode(other, 0, sp.other))
                  ELSE /\ files' = files
                       /\ last' = Outcome("NodeSplit", other, "ErrIo", 0, 0, NoNode)
    /\ UNCHANGED <<dirExists, longest>>

\* The calls of a program that builds a tree: BTree::new, BTree::insert, and
\* Node::insert on the root node (what fills a node; BTree::insert itself ends
\* in todo!() before it stores anything).
Next ==
    \/ \E cap \in Caps : BTreeNew(cap)
    \/ \E k \in Keys, v \in Values : BTreeInsert(k, v)
    \/ \E k \in Keys, v \in Values : NodeInsert(k, v)

Spec == Init /\ [][Next]_vars

(* ------------- the Node methods on a given NodeData ------------------ *)

\* Number of calls made on a given node.
NodeOps == 4

\* The strictly increasing sequence of the elements of a set of integers.
RECURSIVE SortedSeq(_)
SortedSeq(S) ==
    IF S = {} THEN <<>>
    ELSE LET m == CHOOSE x \in S : \A y \in S : x <= y
         IN <<m>> \o SortedSeq(S \ {m})

\* Keys a child may hold: one below and one above the keys of its parent too.
ChildKeys == 0..(MaxKey + 1)

\* The keys that fall into gap i (1..Len(keys)+1) of a key sequence.
GapKeys(keys, i) ==
    {x \in ChildKeys : /\ (i > 1 => keys[i - 1] < x)
                       /\ (i <= Len(keys) => x < keys[i])}

\* A leaf holding a set of keys, each with the same value, as a complete file.
LeafFile(S, cap) ==
    [exists |-> TRUE,
     bytes |-> Encode(MkData(SortedSeq(S), [i \in 1..Cardinality(S) |-> MaxVal], NoChildren, cap))]

\* The NodeData values over a capacity and a key set: neighbouring keys hold
\* different values (the values alternate, from either one), as a leaf
\* or with one child per gap (child i is the file named i).
NodeDatasOver(cap, S) ==
    { MkData(SortedSeq(S), [i \in 1..Cardinality(S) |-> MaxVal - ((i + s) % 2)], kids, cap) :
        s \in 0..1,
        kids \in {NoChildren, SomeChildren([i \in 1..(Cardinality(S) + 1) |-> i])} }

\* The NodeData values the Node methods are applied to: every capacity
\* NodeData::new accepts and every key set that fits.
NodeDatas ==
    UNION { NodeDatasOver(cap, S) :
              cap \in {c \in Caps : ValidCapacity(c)},
              S \in {T \in SUBSET Keys : Cardinality(T) <= MaxCap} }

WellSized(d) == Len(d.keys) <= d.cap

\* The state after Node::new_with_data("root", d): the file is created and
\* empty. The children of d are leaves on disk, child i holding the keys of gap i.
InitNode ==
    \E d \in {x \in NodeDatas : WellSized(x)} :
        /\ dirExists = TRUE
        /\ files = [n \in Names |->
                      IF n = RootName THEN EmptyFile
                      ELSE IF d.children.some /\ n <= Len(d.children.refs)
                      THEN LeafFile(GapKeys(d.keys, n), d.cap)
                      ELSE NoFile]
        /\ tree = [exists |-> TRUE, root_node |-> MkNode(RootName, 0, d)]
        /\ last = Outcome("init", 0, "Ok", 0, 0, NoNode)
        /\ ops = MaxOps - NodeOps
        /\ longest = 0

\* The paths Node::load is called with: "root", the file of the node, and a
\* name no file has.
LoadPaths ==
    {RootName, tree.root_node.path} \cup (IF HasFreshName(files) THEN {FreshName(files)} ELSE {})

\* The paths Node::split is called with: a new name, and the name of a file that
\* exists.
SplitPaths == {RootName} \cup (IF HasFreshName(files) THEN {FreshName(files)} ELSE {})

\* Node::insert is called on leaves: its one call in the code (lib.rs:82) is on
\* a node that was just created, and a key enters a node with children only
\* together with a child. BTree::insert reads neither its key nor its value
\* before it ends (lib.rs:72-86): one pair stands for all.
NextNode ==
    \/ \E k \in Keys : is_leaf(tree.root_node.data) /\ NodeInsert(k, MaxVal)
    \/ NodeSave
    \/ \E path \in LoadPaths : NodeLoad(path)
    \/ \E other \in SplitPaths : NodeSplit(other)
    \/ BTreeInsert(MaxKey, MaxVal)

NodeSpec == InitNode /\ [][NextNode]_vars

(* ------------------ Node::split on a given full node ---------------- *)

\* The largest capacity of a node that is split.
MaxSplitCap == 7

\* Keys of the nodes that are split: one more than the largest capacity.
SplitKeys == 1..(MaxSplitCap + 1)

\* The full NodeData values Node::split is applied to: every capacity
\* NodeData::new accepts and every key set that fills it.
FullNodeDatasOf(cap) ==
    UNION { NodeDatasOver(cap, S) : S \in {T \in SUBSET SplitKeys : Cardinality(T) = cap} }

FullNodeDatas == UNION { FullNodeDatasOf(cap) : cap \in {c \in 3..MaxSplitCap : ValidCapacity(c)} }

\* The state after Node::new_with_data("root", d) for a full d, its children
\* leaves on disk as in InitNode.
InitSplit ==
    \E d \in FullNodeDatas :
        /\ dirExists = TRUE
        /\ files = [n \in Names |->
                      IF n = RootName THEN EmptyFile
                      ELSE IF d.children.some /\ n <= Len(d.children.refs)
                      THEN LeafFile(GapKeys(d.keys, n), d.cap)
                      ELSE NoFile]
        /\ tree = [exists |-> TRUE, root_node |-> MkNode(RootName, 0, d)]
        /\ last = Outcome("init", 0, "Ok", 0, 0, NoNode)
        /\ ops = MaxOps - NodeOps
        /\ longest = 0

NextSplit == \E other \in SplitPaths : NodeSplit(other)

SplitSpec == InitSplit /\ [][NextSplit]_vars

(* ------------ creating, renaming and filling a given node ------------ *)

\* Node::new(path, capacity): NodeData::new(capacity) is evaluated first (with
\* its assertion), then new_with_data creates the file. The new Node is the
\* call's result.
NodeNew(path, cap) ==
    /\ Step
    /\ tree.exists
    /\ IF ~ValidCapacity(cap)
       THEN /\ last' = Outcome("NodeNew", path, "Panic", 0, 0, NoNode)
            /\ UNCHANGED files
       ELSE IF ~CanCreate(files, path)
       THEN /\ last' = Outcome("NodeNew", path, "ErrIo", 0, 0, NoNode)
            /\ UNCHANGED files
       ELSE /\ files' = CreateFile(files, path)
            /\ last' = Outcome("NodeNew", path, "Ok", 0, 0, MkNode(path, 0, NodeDataNew(cap)))
    /\ UNCHANGED <<dirExists, tree, longest>>

\* Node::rename(new_name) on the root node.
NodeRename(new_name) ==
    /\ Step
    /\ tree.exists
    /\ IF ~CanCreate(files, new_name)
       THEN /\ last' = Outcome("NodeRename", new_name, "ErrIo", 0, 0, NoNode)
            /\ UNCHANGED <<files, tree, longest>>
       ELSE /\ files' = RenameFiles(files, tree.root_node, new_name)
            /\ tree' = [tree EXCEPT !.root_node = RenameNode(files, tree.root_node, new_name)]
            /\ last' = Outcome("NodeRename", new_name, "Ok", 0, 0, NoNode)
            /\ longest' = Len(files'[new_name].bytes)
    /\ UNCHANGED dirExists

\* insert_if_space(key, value) -> Result<unit, NeedsSplit>: [ret, data]; ret is
\* "Ok" or "ErrNeedsSplit".
InsertIfSpace(d, key, value) ==
    LET r == binary_search(d.keys, key)
    IN IF r.found
       THEN [ret |-> "Ok", data |-> [d EXCEPT !.values[r.idx + 1] = value]]
       ELSE IF ~is_full(d)
       THEN [ret |-> "Ok",
             data |-> [d EXCEPT !.keys = VecInsert(d.keys, r.idx, key),
                                !.values = VecInsert(d.values, r.idx, value)]]
       ELSE [ret |-> "ErrNeedsSplit", data |-> d]

\* insert_if_space(key, value) on the root node.
NodeInsertIfSpace(k, v) ==
    /\ Step
    /\ tree.exists
    /\ LET r == InsertIfSpace(tree.root_node.data, k, v)
       IN /\ tree' = [tree EXCEPT !.root_node.data = r.data]
          /\ last' = Outcome("NodeInsertIfSpace", 0, r.ret, 0, 0, NoNode)
    /\ UNCHANGED <<dirExists, files, longest>>

\* The paths Node::new is called with: a new name, "root", and the name of the
\* first child (a file that holds a record, when the node has children).
NewPaths == SplitPaths \cup {1}

\* Creating nodes next to a given node, with save and load.
NextNew ==
    \/ \E path \in NewPaths, cap \in Caps : NodeNew(path, cap)
    \/ NodeSave
    \/ \E path \in LoadPaths : NodeLoad(path)

NewSpec == InitNode /\ [][NextNew]_vars

\* insert_if_space adds keys to leaves only: on a node with children it is
\* called with a key the node holds, or when the node is full.
MayInsertIfSpace(d, k) ==
    is_leaf(d) \/ is_full(d) \/ \E i \in 1..Len(d.keys) : d.keys[i] = k

\* insert_if_space on a given node.
NextFill ==
    \E k \in Keys, v \in Values :
        MayInsertIfSpace(tree.root_node.data, k) /\ NodeInsertIfSpace(k, v)

FillSpec == InitNode /\ [][NextFill]_vars

\* Renaming a given node, with the calls that change it and save it.
NextFile ==
    \/ \E new_name \in SplitPaths : NodeRename(new_name)
    \/ \E k \in Keys : is_leaf(tree.root_node.data) /\ NodeInsert(k, MaxVal)
    \/ NodeSave

FileSpec == InitNode /\ [][NextFile]_vars

(* ---------------------------- properties ----------------------------- *)

\* How deep a chain of child references is followed.
MaxDepth == 3

StrictlyIncreasing(keys) == \A i \in 1..(Len(keys) - 1) : keys[i] < keys[i + 1]

\* The nodes on disk: the NodeData of every file that holds a record.
DiskNodes ==
    {Decode(files[n].bytes).data : n \in {m \in Names : files[m].exists /\ Decode(files[m].bytes).ok}}

\* Every node there is: the resident root, the node the last call handed back (a
\* loaded node, the sibling of a split), and the nodes on disk.
AllNodes ==
    (IF tree.exists THEN {tree.root_node.data} ELSE {})
        \cup (IF last.node # NoNode THEN {last.node.data} ELSE {})
        \cup DiskNodes

\* C2: in every reachable state the key sequence of every node (the resident
\* root and every node on disk) is strictly increasing, so without duplicates.
C2_KeysStrictlyIncreasing == \A d \in AllNodes : StrictlyIncreasing(d.keys)

\* C2 witness: the root-split branch of BTree::insert has run on a full root; the
\* demoted root holds several keys in memory and on disk.
C2_Witness ==
    /\ last.op = "BTreeInsert" /\ last.ret = "ErrIo"
    /\ Len(tree.root_node.data.keys) >= 2
    /\ \E d \in DiskNodes : Len(d.keys) >= 2

\* C4: in every reachable state every node has as many values as keys, at most
\* capacity keys, and either no children or one child more than keys.
C4_NodeShape ==
    \A d \in AllNodes :
        /\ Len(d.keys) = Len(d.values)
        /\ Len(d.keys) <= d.cap
        /\ (d.children.some => Len(d.children.refs) = Len(d.keys) + 1)

\* C4 witness: a full node with children was split, and both halves are internal
\* nodes.
C4_Witness ==
    /\ last.op = "NodeSplit" /\ last.ret = "Ok"
    /\ last.node.data.children.some
    /\ tree.root_node.data.children.some
    /\ Len(tree.root_node.data.keys) >= 2

\* The keys stored in the subtree whose root is the file ref, following child
\* references depth levels down.
RECURSIVE SubtreeKeys(_, _, _)
SubtreeKeys(fs, ref, depth) ==
    IF depth = 0 \/ ~fs[ref].exists \/ ~Decode(fs[ref].bytes).ok THEN {}
    ELSE LET d == Decode(fs[ref].bytes).data
         IN {d.keys[i] : i \in 1..Len(d.keys)}
              \cup (IF d.children.some
                    THEN UNION {SubtreeKeys(fs, d.children.refs[i], depth - 1) :
                                  i \in 1..Len(d.children.refs)}
                    ELSE {})

\* The keys under child i of a node.
ChildSubtree(d, i) == SubtreeKeys(files, d.children.refs[i], MaxDepth)

\* The keys under child i lie between keys[i-1] and keys[i], the ends open.
SearchTree(d) ==
    d.children.some =>
        \A i \in 1..Len(d.children.refs) : \A x \in ChildSubtree(d, i) :
            /\ (i >= 2 /\ i - 1 <= Len(d.keys) => d.keys[i - 1] < x)
            /\ (i <= Len(d.keys) => x < d.keys[i])

\* C3: for every node with children and every index i, all keys stored in the
\* subtree under children[i] are greater than keys[i-1] and less than keys[i];
\* this holds of the node and of its sibling after a split and after the
\* root-split branch of BTree::insert.
C3_SearchTree == \A d \in AllNodes : SearchTree(d)

\* C3 witness: a full node with children was split; the children that went to
\* the sibling and those that stayed hold keys.
C3_Witness ==
    /\ last.op = "NodeSplit" /\ last.ret = "Ok"
    /\ last.node.data.children.some
    /\ tree.root_node.data.children.some
    /\ \E i \in 1..Len(last.node.data.children.refs) :
          i >= 2 /\ ChildSubtree(last.node.data, i) # {}
    /\ \E i \in 1..Len(tree.root_node.data.children.refs) :
          ChildSubtree(tree.root_node.data, i) # {}

\* The key/value pairs of one node.
NodeEntries(d) == {<<d.keys[i], d.values[i]>> : i \in 1..Len(d.keys)}

\* The key/value pairs stored under the file ref.
RECURSIVE SubtreeEntries(_, _, _)
SubtreeEntries(fs, ref, depth) ==
    IF depth = 0 \/ ~fs[ref].exists \/ ~Decode(fs[ref].bytes).ok THEN {}
    ELSE LET d == Decode(fs[ref].bytes).data
         IN NodeEntries(d)
              \cup (IF d.children.some
                    THEN UNION {SubtreeEntries(fs, d.children.refs[i], depth - 1) :
                                  i \in 1..Len(d.children.refs)}
                    ELSE {})

\* The key/value pairs of the tree: those of the resident root and of the nodes
\* below it.
TreeEntries ==
    LET d == tree.root_node.data
    IN NodeEntries(d)
         \cup (IF d.children.some
               THEN UNION {SubtreeEntries(files, d.children.refs[i], MaxDepth) :
                             i \in 1..Len(d.children.refs)}
               ELSE {})

\* The number of levels below and including a node.
RECURSIVE Height(_, _, _)
Height(fs, d, depth) ==
    IF depth = 0 \/ ~d.children.some \/ Len(d.children.refs) = 0 THEN 1
    ELSE LET c == fs[d.children.refs[1]]
         IN IF c.exists /\ Decode(c.bytes).ok
            THEN 1 + Height(fs, Decode(c.bytes).data, depth - 1)
            ELSE 2

TreeHeight == Height(files, tree.root_node.data, MaxDepth)

\* C1 as claimed: BTree::insert of a key the tree does not hold returns none, of
\* a key it holds returns the value stored for it, and afterwards the tree holds
\* exactly one entry for the key, with the new value.
C1_LastWriteWins ==
    [][\A k \in Keys, v \in Values :
         BTreeInsert(k, v) =>
            /\ last'.ret = (IF \E e \in TreeEntries : e[1] = k THEN "Some" ELSE "None")
            /\ (last'.ret = "Some" => <<k, last'.old>> \in TreeEntries)
            /\ {e \in TreeEntries' : e[1] = k} = {<<k, v>>}]_vars

\* C5 as claimed: BTree::insert on a full root completes the split; the new root
\* is the file "root" and holds the median of the old root alone, with two
\* children in new files: the demoted root with the keys below the median and
\* the sibling with the keys above it. The tree is one level higher.
C5_RootSplit ==
    [][(last'.op = "BTreeInsert" /\ is_full(tree.root_node.data)) =>
         LET old == tree.root_node.data
             mid == (Len(old.keys) + 1) \div 2
             new == tree'.root_node
         IN /\ last'.ret # "ErrIo"
            /\ new.path = RootName
            /\ new.data.keys = <<old.keys[mid]>>
            /\ new.data.values = <<old.values[mid]>>
            /\ new.data.children.some
            /\ Len(new.data.children.refs) = 2
            /\ \A i \in 1..2 : /\ new.data.children.refs[i] # RootName
                               /\ ~files[new.data.children.refs[i]].exists
            /\ SubtreeEntries(files', new.data.children.refs[1], 1)
                 = {e \in NodeEntries(old) : e[1] < old.keys[mid]}
            /\ SubtreeEntries(files', new.data.children.refs[2], 1)
                 = {e \in NodeEntries(old) : e[1] > old.keys[mid]}
            /\ TreeHeight' = TreeHeight + 1]_vars

\* C6 as claimed: a tree can be constructed with capacity 3 over an empty
\* directory (the scenario's inserts then act on that tree).
C6_CapacityThree ==
    [][(last'.op = "BTreeNew" /\ last'.arg = 3 /\ ~dirExists) =>
         /\ last'.ret = "Ok"
         /\ tree'.exists
         /\ tree'.root_node.data.cap = 3]_vars

\* C7 as claimed: the files on disk alone encode the key/value map of the tree:
\* the file "root" holds a record, and the entries read from it and the files
\* below it are the entries of the tree.
C7_DiskEncodesMap ==
    tree.exists =>
        /\ files[RootName].exists
        /\ Decode(files[RootName].bytes).ok
        /\ SubtreeEntries(files, RootName, MaxDepth) = TreeEntries

SameContent(a, b) == a.keys = b.keys /\ a.values = b.values /\ a.children = b.children

C9_RoundTrip ==
    [][(last.op = "NodeSave" /\ last'.op = "NodeLoad" /\ last'.arg = tree.root_node.path) =>
         /\ last'.ret = "Ok"
         /\ last'.node.path = tree.root_node.path
         /\ SameContent(last'.node.data, tree.root_node.data)]_vars

\* C9 witness: the node's file was loaded after a save that left it shorter than
\* an earlier save had.
C9_Witness ==
    /\ last.op = "NodeLoad" /\ last.ret = "Ok" /\ last.arg = tree.root_node.path
    /\ SameContent(last.node.data, tree.root_node.data)
    /\ tree.root_node.pos = Len(files[tree.root_node.path].bytes)
    /\ Len(files[tree.root_node.path].bytes) < longest
    /\ Len(tree.root_node.data.keys) >= 1

\* The root BTree::new creates: an empty leaf of the given capacity, bound to the
\* new, empty file "root".
FreshRoot(cap) == MkNode(RootName, 0, MkData(<<>>, <<>>, NoChildren, cap))

HandedBack == last.node # NoNode

C12_NoPartialSuccess ==
    [][(last'.op = "BTreeInsert" /\ last'.ret = "ErrIo") =>
         /\ SameContent(tree'.root_node.data, tree.root_node.data)
         /\ tree'.root_node.path = RootName
         /\ TreeEntries' = TreeEntries]_vars

\* C13: Node::split of a full node of odd capacity C leaves (C-1)/2 keys in the
\* node and C/2 keys in the sibling, C - 1 together, and returns one key and
\* value, the key being none of those; for C = 5 the sizes are 2 and 2; the
\* sibling (and the node) have capacity C.
C13_SplitSizes ==
    [][(last'.op = "NodeSplit" /\ last'.ret = "Ok") =>
         LET C == capacity(tree.root_node.data)
             left == tree'.root_node.data
             right == last'.node.data
         IN /\ C % 2 = 1
            /\ Len(left.keys) = (C - 1) \div 2
            /\ Len(right.keys) = C \div 2
            /\ Len(left.keys) + Len(right.keys) = C - 1
            /\ (C = 5 => Len(left.keys) = 2 /\ Len(right.keys) = 2)
            /\ <<last'.key, last'.old>> \in NodeEntries(tree.root_node.data)
            /\ <<last'.key, last'.old>> \notin NodeEntries(left) \cup NodeEntries(right)
            /\ capacity(right) = C
            /\ capacity(left) = C]_vars

\* C13 witness: a full node of capacity 7 was split into halves of 3 keys.
C13_Witness ==
    /\ last.op = "NodeSplit" /\ last.ret = "Ok"
    /\ capacity(last.node.data) = 7
    /\ Len(last.node.data.keys) = 3
    /\ Len(tree.root_node.data.keys) = 3

\* C14: Node::split of a full node keeps the content: the keys left in the
\* node, then the returned key, then the keys of the sibling are the keys before
\* the split, and the same holds of the values, so each key keeps its value; the
\* children left in the node followed by those of the sibling are the children
\* before the split, each half with one child more than keys (a leaf splits
\* into leaves).
C14_SplitKeepsContent ==
    [][(last'.op = "NodeSplit" /\ last'.ret = "Ok") =>
         LET old == tree.root_node.data
             left == tree'.root_node.data
             right == last'.node.data
         IN /\ left.keys \o <<last'.key>> \o right.keys = old.keys
            /\ left.values \o <<last'.old>> \o right.values = old.values
            /\ left.children.some = old.children.some
            /\ right.children.some = old.children.some
            /\ old.children.some =>
                  /\ left.children.refs \o right.children.refs = old.children.refs
                  /\ Len(left.children.refs) = Len(left.keys) + 1
                  /\ Len(right.children.refs) = Len(right.keys) + 1]_vars

\* C14 witness: a full node with children and with different values was split;
\* both halves hold children.
C14_Witness ==
    /\ last.op = "NodeSplit" /\ last.ret = "Ok"
    /\ last.node.data.children.some
    /\ Len(last.node.data.children.refs) >= 3
    /\ Len(tree.root_node.data.children.refs) >= 3
    /\ last.node.data.values[1] # last.node.data.values[2]
    /\ last.old # tree.root_node.data.values[Len(tree.root_node.data.values)]

HasKey(d, k) == \E i \in 1..Len(d.keys) : d.keys[i] = k

\* C15: Node::insert(k, v) on a node that holds k (full or not) replaces the
\* value of k, returns the old value and leaves the keys as they are; on a node
\* that does not hold k and is not full it adds the entry, the keys staying
\* sorted, and returns none; on a full node that does not hold k it panics and
\* the node is unchanged.
C15_InsertCases ==
    [][last'.op = "NodeInsert" => \A k \in Keys, v \in Values :
         NodeInsert(k, v) =>
            LET d == tree.root_node.data
                e == tree'.root_node.data
            IN IF HasKey(d, k)
               THEN /\ last'.ret = "Some"
                    /\ <<k, last'.old>> \in NodeEntries(d)
                    /\ e.keys = d.keys
                    /\ Len(e.values) = Len(d.values)
                    /\ NodeEntries(e) = (NodeEntries(d) \ {<<k, last'.old>>}) \cup {<<k, v>>}
               ELSE IF Len(d.keys) < capacity(d)
               THEN /\ last'.ret = "None"
                    /\ Len(e.keys) = Len(d.keys) + 1
                    /\ Len(e.values) = Len(e.keys)
                    /\ StrictlyIncreasing(e.keys)
                    /\ NodeEntries(e) = NodeEntries(d) \cup {<<k, v>>}
               ELSE /\ last'.ret = "Panic"
                    /\ e = d]_vars

\* C15 witness: a value was replaced in a full node; the old value was returned
\* and differs from the one now stored in its place.
C15_Witness ==
    /\ last.op = "NodeInsert" /\ last.ret = "Some"
    /\ is_full(tree.root_node.data)
    /\ \E i \in 1..Len(tree.root_node.data.values) :
          /\ tree.root_node.data.values[i] # last.old
          /\ \A j \in 1..Len(tree.root_node.data.values) :
                j # i => tree.root_node.data.values[j] = last.old

C18_Rename ==
    [][/\ last'.op = "NodeRename" =>
             IF files[last'.arg].exists
             THEN last'.ret = "ErrIo" /\ files' = files /\ tree' = tree
             ELSE /\ last'.ret = "Ok"
                  /\ tree'.root_node.path = last'.arg
                  /\ tree'.root_node.data = tree.root_node.data
                  /\ files'[last'.arg].exists
                  /\ Decode(files'[last'.arg].bytes).ok
                  /\ SameContent(Decode(files'[last'.arg].bytes).data, tree.root_node.data)
                  /\ \A n \in Names \ {last'.arg} : files'[n] = files[n]
       /\ last'.op # "NodeRename" => tree'.root_node.path = tree.root_node.path
       /\ last'.op = "NodeSave" =>
             /\ \A n \in Names \ {tree.root_node.path} : files'[n] = files[n]
             /\ Decode(files'[tree.root_node.path].bytes).ok
             /\ SameContent(Decode(files'[tree.root_node.path].bytes).data,
                            tree.root_node.data)]_vars

\* C18 witness: a saved node was renamed, changed and saved again; the old file
\* still holds the record of the data before the change, the new file holds
\* the record of the data now.
C18_Witness ==
    /\ last.op = "NodeSave"
    /\ tree.root_node.path # RootName
    /\ Decode(files[RootName].bytes).ok
    /\ ~SameContent(Decode(files[RootName].bytes).data, tree.root_node.data)
    /\ Len(Decode(files[RootName].bytes).data.keys) >= 1
    /\ Decode(files[tree.root_node.path].bytes).ok
    /\ SameContent(Decode(files[tree.root_node.path].bytes).data, tree.root_node.data)

\* C20 as claimed: the node that Node::load yields from the file of a node that
\* was just saved has the capacity of the saved node, and is full exactly if
\* the saved node is.
C20_CapacitySurvives ==
    [][(/\ last.op = "NodeSave"
        /\ last'.op = "NodeLoad" /\ last'.ret = "Ok"
        /\ last'.arg = tree.root_node.path) =>
         /\ capacity(last'.node.data) = capacity(tree.root_node.data)
         /\ is_full(last'.node.data) = is_full(tree.root_node.data)]_vars

====
